---- MODULE Spec2Model ----
(***************************************************************************)
(* Translation pipeline of enterprise_ai_demo1_websearch:                  *)
(*   TranslationClient.translate  = responses.create -> _extract_text      *)
(*                                  -> TranslationParser.parse             *)
(* A text is a sequence of lexical tokens <<class, lexeme>>; a decoded     *)
(* JSON value is a record [t |-> type tag, v |-> content].                 *)
(***************************************************************************)
EXTENDS Integers, Sequences, FiniteSets, TLC

VARIABLES pc, payload, resp, raw, result, error,
          service, client, built, asked, call, request, calls, outcome,
          argv, exit, stderr, mode, frame, returned, escaped, arg, outs

\* the state of one TranslationClient.translate call
pipe == <<pc, payload, resp, raw, result, error>>
\* the service and client objects and the calls made on them
app == <<service, client, built, asked, call, request, calls, outcome>>
\* the command line programs, the frame of interactive_mode with what it
\* returned or let escape, and the argument and results of a prompt helper
cli == <<argv, exit, stderr, mode, frame, returned, escaped, arg, outs>>

vars == <<pipe, app, cli>>

(***************************************************************************)
(* Bounds of the model.                                                    *)
(***************************************************************************)
MaxPairs == 2
MaxExtraKeys == 1
\* longest text and longest target list given to translate
MaxTextLen == 2
MaxTargets == 2
\* longest target list given to ensure_english_included
MaxListLen == 3
\* most codes typed on one line at the language prompt
MaxTokens == 4
\* most rounds of the loop of interactive_mode
MaxRounds == 2

(***************************************************************************)
(* Decoded values (what json.loads builds).                                *)
(***************************************************************************)
JStr(s) == [t |-> "str", v |-> s]
JNum(s) == [t |-> "num", v |-> s]
JNull == [t |-> "null", v |-> "null"]
JTrue == [t |-> "bool", v |-> "true"]
JArr(items) == [t |-> "arr", v |-> items]
JObj(pairs) == [t |-> "obj", v |-> pairs]
Pair(k, val) == [k |-> k, val |-> val]

(***************************************************************************)
(* Tokens.                                                                 *)
(***************************************************************************)
P(c) == <<"p", c>>
TStr(s) == <<"s", s>>
TGarbage == <<"bad", "Detected:">>

(***************************************************************************)
(* json.dumps, as the test doubles use it to build the raw payload.        *)
(***************************************************************************)
RECURSIVE Dumps(_)
RECURSIVE DumpsItems(_, _)
RECURSIVE DumpsPairs(_, _)
DumpsItems(items, i) ==
    IF i > Len(items) THEN <<>>
    ELSE (IF i > 1 THEN <<P(",")>> ELSE <<>>)
         \o Dumps(items[i]) \o DumpsItems(items, i + 1)

DumpsPairs(pairs, i) ==
    IF i > Len(pairs) THEN <<>>
    ELSE (IF i > 1 THEN <<P(",")>> ELSE <<>>)
         \o <<TStr(pairs[i].k), P(":")>> \o Dumps(pairs[i].val)
         \o DumpsPairs(pairs, i + 1)

Dumps(val) ==
    CASE val.t = "str" -> <<TStr(val.v)>>
      [] val.t = "num" -> <<(<<"n", val.v>>)>>
      [] val.t = "null" -> <<(<<"lit", "null">>)>>
      [] val.t = "bool" -> <<(<<"lit", val.v>>)>>
      [] val.t = "arr" -> <<P("[")>> \o DumpsItems(val.v, 1) \o <<P("]")>>
      [] val.t = "obj" -> <<P("{")>> \o DumpsPairs(val.v, 1) \o <<P("}")>>

(***************************************************************************)
(* dict operations: `k in d`, d[k], d.get(k, default), d[k] = v.           *)
(* A dict is the sequence of its pairs in insertion order; storing to an   *)
(* existing key keeps the key's position and replaces its value.           *)
(***************************************************************************)
HasKey(pairs, k) == \E i \in 1..Len(pairs) : pairs[i].k = k

GetItem(pairs, k) ==
    pairs[CHOOSE i \in 1..Len(pairs) : pairs[i].k = k].val
\* obj.get(k, default) that never finds the key
dict_get_AlwaysDefault(pairs, k, default) == default

dict_get(pairs, k, default) ==
    IF HasKey(pairs, k) THEN GetItem(pairs, k) ELSE default

SetItem(pairs, k, val) ==
    IF HasKey(pairs, k)
    THEN [i \in 1..Len(pairs) |->
            IF pairs[i].k = k THEN Pair(k, val) ELSE pairs[i]]
    ELSE Append(pairs, Pair(k, val))

(***************************************************************************)
(* json.loads: a recursive-descent decoder over the tokens.  Each parser   *)
(* returns [ok, val, next]: next is the index of the first unread token.   *)
(***************************************************************************)
NoParse == [ok |-> FALSE, val |-> JNull, next |-> 0]
Parsed(val, next) == [ok |-> TRUE, val |-> val, next |-> next]
TokAt(toks, i) == IF i \in 1..Len(toks) THEN toks[i] ELSE <<"eof", "">>

RECURSIVE ParseValue(_, _)
RECURSIVE ParseElements(_, _, _)
RECURSIVE ParseMembers(_, _, _)

ParseElements(toks, i, acc) ==
    LET r == ParseValue(toks, i) IN
    IF ~r.ok THEN NoParse
    ELSE IF TokAt(toks, r.next) = P(",")
         THEN ParseElements(toks, r.next + 1, Append(acc, r.val))
    ELSE IF TokAt(toks, r.next) = P("]")
         THEN Parsed(JArr(Append(acc, r.val)), r.next + 1)
    ELSE NoParse

ParseMembers(toks, i, acc) ==
    IF TokAt(toks, i)[1] # "s" \/ TokAt(toks, i + 1) # P(":") THEN NoParse
    ELSE LET r == ParseValue(toks, i + 2) IN
         IF ~r.ok THEN NoParse
         ELSE LET acc2 == SetItem(acc, toks[i][2], r.val) IN
              IF TokAt(toks, r.next) = P(",")
              THEN ParseMembers(toks, r.next + 1, acc2)
              ELSE IF TokAt(toks, r.next) = P("}")
              THEN Parsed(JObj(acc2), r.next + 1)
              ELSE NoParse

ParseValue(toks, i) ==
    LET tk == TokAt(toks, i) IN
    CASE tk[1] = "s" -> Parsed(JStr(tk[2]), i + 1)
      [] tk[1] = "n" -> Parsed(JNum(tk[2]), i + 1)
      [] tk[1] = "lit" ->
            Parsed(IF tk[2] = "null" THEN JNull ELSE [t |-> "bool", v |-> tk[2]],
                   i + 1)
      \* Python's decoder also takes NaN, Infinity and -Infinity as floats
      [] tk[1] = "const" -> Parsed(JNum(tk[2]), i + 1)
      [] tk = P("[") ->
            IF TokAt(toks, i + 1) = P("]") THEN Parsed(JArr(<<>>), i + 2)
            ELSE ParseElements(toks, i + 1, <<>>)
      [] tk = P("{") ->
            IF TokAt(toks, i + 1) = P("}") THEN Parsed(JObj(<<>>), i + 2)
            ELSE ParseMembers(toks, i + 1, <<>>)
      [] OTHER -> NoParse

\* json.loads(s) for a str s: exactly one value, nothing after it.
Loads(toks) ==
    LET r == ParseValue(toks, 1) IN
    IF r.ok /\ r.next = Len(toks) + 1 THEN r ELSE NoParse

(***************************************************************************)
(* What the upstream model can write back.  An input is [how, val]: the    *)
(* value the text was written from and how the text was produced.          *)
(***************************************************************************)
Codes == {"en", "es", "de"}
Word(c) == CASE c = "en" -> "Hello world" [] c = "es" -> "Hola mundo"
             [] OTHER -> "Hallo Welt"
ExtraKeys == <<"confidence", "notes", "source">>

CodeSeqs ==
    {s \in UNION {[1..n -> Codes] : n \in 0..MaxPairs} :
        \A i, j \in 1..Len(s) : i # j => s[i] # s[j]}

Mapping(s) == JObj([i \in 1..Len(s) |-> Pair(s[i], JStr(Word(s[i])))])

\* a choice is <<>> (key absent) or <<value>>
DetectedChoices == {<<>>, <<JStr("French")>>, <<JNum("123")>>, <<JNull>>}
TranslationsChoices ==
    {<<>>, <<JStr("not a dict")>>, <<JArr(<<JStr("Hello world")>>)>>,
     <<JObj(<<Pair("en", JNum("1"))>>)>>}
    \cup {<<Mapping(s)>> : s \in CodeSeqs}
OriginalChoices == {<<>>, <<JStr("Bonjour le monde")>>, <<JNull>>}

Member(k, choice) == IF choice = <<>> THEN <<>> ELSE <<Pair(k, choice[1])>>
Extras(n) == [i \in 1..n |-> Pair(ExtraKeys[i], JNum("1"))]

Objects ==
    {JObj(Member("original_text", o) \o Member("detected_language", d)
          \o Member("translations", tr) \o Extras(n)) :
        o \in OriginalChoices, d \in DetectedChoices,
        tr \in TranslationsChoices,
        n \in 0..(IF MaxExtraKeys < 3 THEN MaxExtraKeys ELSE 3)}

TopLevels ==
    {JArr(<<JStr("not"), JStr("a"), JStr("dict")>>), JArr(<<>>),
     JStr("French"), JNum("123"), JTrue, JNull}

Values == Objects \cup TopLevels

\* texts json.loads decodes to the value they were written from
JsonHows == {"dumps"}
\* JSON texts with a repeated key
DupHows == {"dupkey"}
\* texts that are not JSON
NotJsonHows == {"truncated", "trailing", "comma", "prose", "pyconst"}
Hows == JsonHows \cup DupHows \cup NotJsonHows

Inputs == {[how |-> h, val |-> v] : h \in Hows, v \in Values}

TNaN == <<"const", "NaN">>
ProseText == <<TGarbage, <<"bad", "French">>, <<"bad", "|">>, <<"bad", "en:">>,
               <<"bad", "Hello">>, <<"bad", "world">> >>
Front(s) == SubSeq(s, 1, Len(s) - 1)
Last(s) == s[Len(s)]

Text(inp) ==
    LET d == Dumps(inp.val)
        closed == inp.val.t \in {"obj", "arr"}
        empty == closed /\ Len(inp.val.v) = 0
    IN CASE inp.how = "dumps" -> d
         [] inp.how = "truncated" -> Front(d)
         [] inp.how = "trailing" -> Append(d, P("}"))
         [] inp.how = "comma" ->
              IF closed THEN Front(d) \o <<P(","), Last(d)>>
              ELSE Append(d, P(","))
         [] inp.how = "prose" -> ProseText \o d
         [] inp.how = "pyconst" ->
              IF inp.val.t = "obj"
              THEN Front(d) \o (IF empty THEN <<>> ELSE <<P(",")>>)
                   \o <<TStr("score"), P(":"), TNaN, P("}")>>
              ELSE <<TNaN>>
         [] inp.how = "dupkey" ->
              IF inp.val.t = "obj" /\ ~empty
              THEN Front(d) \o <<P(","), TStr(inp.val.v[1].k), P(":"),
                                  <<"lit", "null">>, P("}")>>
              ELSE d

\* the value a JSON text denotes (RFC 8259 leaves repeated keys to the
\* decoder; Python keeps the last value)
Denoted(inp) ==
    IF inp.how = "dupkey" /\ inp.val.t = "obj" /\ Len(inp.val.v) > 0
    THEN JObj(SetItem(inp.val.v, inp.val.v[1].k, JNull))
    ELSE inp.val

(***************************************************************************)
(* Response objects of responses.create.                                   *)
(*  kind    "str": the response is itself a str; "obj": any other object   *)
(*  ot      the output_text attribute: absent, a str, a non-str value, a   *)
(*          property that raises when read, or a method that returns a     *)
(*          str / returns a non-str / raises TypeError / raises another    *)
(*          error                                                          *)
(*  output, content   the attribute: absent, raises when read, not a list, *)
(*          an empty list, a non-empty list                                *)
(*  elem    content[0]: object with a str text, dict with a str "text",    *)
(*          the same with a non-str text, no text, text raises when read   *)
(*  ottext  the str output_text is or returns; ctext the str text of elem  *)
(***************************************************************************)
OtKinds == {"absent", "str", "nonstr", "prop_raises", "method_str",
            "method_nonstr", "method_typeerror", "method_raises"}
AttrKinds == {"absent", "raises", "notlist", "empty", "list"}
ElemKinds == {"attr", "dict", "attr_nonstr", "dict_nonstr", "notext", "raises"}

Structures ==
    {[output |-> o, content |-> c, elem |-> e] :
        o \in AttrKinds, c \in AttrKinds, e \in ElemKinds}

\* attributes nothing can read are fixed
NormalStructures ==
    {st \in Structures :
        /\ st.output # "list" => st.content = "absent"
        /\ st.content # "list" => st.elem = "notext"}

OtReturns(ot) == ot \in {"str", "method_str"}
OtStops(ot) == OtReturns(ot) \/ ot \in {"prop_raises", "method_nonstr", "method_raises"}
HasText(st) == st.output = "list" /\ st.content = "list" /\ st.elem \in {"attr", "dict"}

\* when output_text ends the extraction, one structure without and the
\* structures with a text stand for all structures
Shapes ==
    {[kind |-> "obj", ot |-> x[1], output |-> x[2].output,
      content |-> x[2].content, elem |-> x[2].elem] :
        x \in {y \in OtKinds \X NormalStructures :
                  OtStops(y[1]) => (y[2].output = "absent" \/ HasText(y[2]))}}
    \cup {[kind |-> "str", ot |-> "absent", output |-> "absent",
           content |-> "absent", elem |-> "notext"]}

\* the text carried by the attribute the drawn input does not go to
OtherText ==
    Dumps(JObj(<<Pair("detected_language", JStr("English")),
                 Pair("translations", JObj(<<Pair("es", JStr("Hola"))>>))>>))

DefaultInput == [how |-> "dumps", val |-> JNull]

\* where the drawn input can be put
Carriers(sh) ==
    (IF sh.kind = "str" \/ OtReturns(sh.ot) THEN {"ot"} ELSE {})
    \cup (IF HasText(sh) /\ ~(OtStops(sh.ot) /\ ~OtReturns(sh.ot))
          THEN {"content"} ELSE {})

Response(sh, inp, carrier) ==
    [kind |-> sh.kind, ot |-> sh.ot, output |-> sh.output,
     content |-> sh.content, elem |-> sh.elem,
     ottext |-> IF carrier = "ot" THEN Text(inp) ELSE OtherText,
     ctext |-> IF carrier = "content" THEN Text(inp) ELSE OtherText]

(***************************************************************************)
(* Python values handed on by the extractor: a str, or something else.     *)
(***************************************************************************)
PyStr(toks) == [isstr |-> TRUE, toks |-> toks]
NonStr == [isstr |-> FALSE, toks |-> <<>>]

\* str(resp): a str is itself, an object prints as <... object at 0x...>
ReprText == <<(<<"bad", "<Response object at 0x7f00>">>)>>
str(r) == PyStr(IF r.kind = "str" THEN r.ottext ELSE ReprText)

Return(value) == [raised |-> FALSE, exc |-> "", value |-> value]
Raise(exc) == [raised |-> TRUE, exc |-> exc, value |-> NonStr]

(***************************************************************************)
(* TranslationClient._extract_text                                         *)
(***************************************************************************)
\* getattr(content[0], "text", None) when it is a str
AttrText(r) == IF r.elem = "attr" THEN <<PyStr(r.ctext)>> ELSE <<>>
\* the mapping form of content[0] left unsupported
DictText_Unsupported(r) == <<>>

\* content[0]["text"] when content[0] is a dict and the value is a str
DictText(r) == IF r.elem = "dict" THEN <<PyStr(r.ctext)>> ELSE <<>>

\* step 3: <<text>> when the walk finds one, <<>> when it does not or when
\* an exception is raised on the way (except Exception: pass)
StructuredText(r) ==
    IF r.output # "list" THEN <<>>
    ELSE IF r.content # "list" THEN <<>>
    ELSE IF r.elem = "raises" THEN <<>>
    ELSE IF AttrText(r) # <<>> THEN AttrText(r)
    ELSE DictText(r)

Fallback(r) ==
    IF StructuredText(r) # <<>> THEN Return(StructuredText(r)[1])
    ELSE Return(str(r))

PropertyForm(r) ==
    IF r.ot = "str" THEN Return(PyStr(r.ottext)) ELSE Fallback(r)
\* a TypeError of output_text() sends the extractor straight to str(resp)
_extract_text_SkipsStructured(r) ==
    IF r.ot = "prop_raises" THEN Raise("RuntimeError")
    ELSE IF r.ot = "method_str" THEN Return(PyStr(r.ottext))
    ELSE IF r.ot = "method_nonstr" THEN Return(NonStr)
    ELSE IF r.ot = "method_raises" THEN Raise("RuntimeError")
    ELSE IF r.ot = "method_typeerror" THEN Return(str(r))
    ELSE PropertyForm(r)

_extract_text(r) ==
    \* hasattr() only swallows AttributeError
    IF r.ot = "prop_raises" THEN Raise("RuntimeError")
    ELSE IF r.ot = "method_str" THEN Return(PyStr(r.ottext))
    ELSE IF r.ot = "method_nonstr" THEN Return(NonStr)
    ELSE IF r.ot = "method_raises" THEN Raise("RuntimeError")
    \* method_typeerror: except TypeError: pass
    ELSE PropertyForm(r)

(***************************************************************************)
(* TranslationParser.parse                                                 *)
(***************************************************************************)
MsgNotJson == "Expected JSON translation payload"
MsgTopLevel == "Expected JSON object at top level"
MsgMissing == "Missing required fields: detected_language, translations"
MsgTypes == "Invalid types for detected_language or translations"

ValueError(msg) == [type |-> "ValueError", msg |-> msg]

TranslationResult(original_text, detected_language, translations) ==
    [original_text |-> original_text, detected_language |-> detected_language,
     translations |-> translations]

\* json.loads(text): a non-str argument raises TypeError
json_loads(text) == IF text.isstr THEN Loads(text.toks) ELSE NoParse

isinstance_dict(val) == val.t = "obj"
isinstance_str(val) == val.t = "str"

MissingRequired(obj) ==
    ~HasKey(obj.v, "detected_language") \/ ~HasKey(obj.v, "translations")
\* `and` written for `or` in the type check
InvalidTypes_Both(detected, translations) ==
    ~isinstance_str(detected) /\ ~isinstance_dict(translations)

InvalidTypes(detected, translations) ==
    ~isinstance_str(detected) \/ ~isinstance_dict(translations)

Failed(err) == [ok |-> FALSE, err |-> <<err>>, res |-> <<>>]
Succeeded(res) == [ok |-> TRUE, err |-> <<>>, res |-> <<res>>]
\* the field types checked (through obj.get) before the presence of the keys
parse_TypesFirst(text) ==
    LET r == json_loads(text) IN
    IF ~r.ok THEN Failed(ValueError(MsgNotJson))
    ELSE IF ~isinstance_dict(r.val) THEN Failed(ValueError(MsgTopLevel))
    ELSE LET detected == dict_get(r.val.v, "detected_language", JNull)
             translations == dict_get(r.val.v, "translations", JNull)
         IN IF InvalidTypes(detected, translations)
            THEN Failed(ValueError(MsgTypes))
            ELSE IF MissingRequired(r.val) THEN Failed(ValueError(MsgMissing))
            ELSE Succeeded(TranslationResult(
                     dict_get(r.val.v, "original_text", JStr("")),
                     detected, translations))

\* the top-level check left out: the key test on a list, str or number
\* finds no key
parse_NoTopLevelCheck(text) ==
    LET r == json_loads(text) IN
    IF ~r.ok THEN Failed(ValueError(MsgNotJson))
    ELSE IF ~isinstance_dict(r.val) \/ MissingRequired(r.val)
         THEN Failed(ValueError(MsgMissing))
    ELSE LET detected == GetItem(r.val.v, "detected_language")
             translations == GetItem(r.val.v, "translations")
         IN IF InvalidTypes(detected, translations)
            THEN Failed(ValueError(MsgTypes))
            ELSE Succeeded(TranslationResult(
                     dict_get(r.val.v, "original_text", JStr("")),
                     detected, translations))

parse(text) ==
    LET r == json_loads(text) IN
    IF ~r.ok THEN Failed(ValueError(MsgNotJson))
    ELSE IF ~isinstance_dict(r.val) THEN Failed(ValueError(MsgTopLevel))
    ELSE IF MissingRequired(r.val) THEN Failed(ValueError(MsgMissing))
    ELSE LET detected == GetItem(r.val.v, "detected_language")
             translations == GetItem(r.val.v, "translations")
         IN IF InvalidTypes(detected, translations)
            THEN Failed(ValueError(MsgTypes))
            ELSE Succeeded(TranslationResult(
                     dict_get(r.val.v, "original_text", JStr("")),
                     detected, translations))

(***************************************************************************)
(* TranslationClient.translate, one action per call it makes.              *)
(*   pc: idle -> called -> extracted -> done | failed                      *)
(***************************************************************************)
Init ==
    /\ pc = "idle"
    /\ payload = <<>>
    /\ resp = <<>>
    /\ raw = <<>>
    /\ result = <<>>
    /\ error = <<>>
    /\ service = <<>> /\ client = <<>> /\ built = <<>> /\ asked = <<>> /\ call = <<>>
    /\ request = <<>> /\ calls = 0 /\ outcome = <<>>
    /\ argv = <<>> /\ exit = <<>> /\ stderr = <<>> /\ mode = ""
    /\ frame = <<>> /\ returned = <<>> /\ escaped = <<>>
    /\ arg = <<>> /\ outs = <<>>

\* resp = self.client.responses.create(...)
ApiReturn ==
    /\ pc = "idle"
    /\ \E sh \in Shapes :
         \E inp \in (IF Carriers(sh) = {} THEN {DefaultInput} ELSE Inputs) :
           \E carrier \in (IF Carriers(sh) = {} THEN {"none"} ELSE Carriers(sh)) :
              /\ resp' = <<Response(sh, inp, carrier)>>
              /\ payload' = <<inp>>
    /\ pc' = "called"
    /\ UNCHANGED <<raw, result, error, app, cli>>

\* raw = self._extract_text(resp)
ExtractText ==
    /\ pc = "called"
    /\ LET o == _extract_text(resp[1]) IN
         IF o.raised
         THEN /\ pc' = "failed"
              /\ error' = <<[type |-> o.exc, msg |-> "output_text"]>>
              /\ raw' = raw
         ELSE /\ pc' = "extracted"
              /\ raw' = <<o.value>>
              /\ error' = error
    /\ UNCHANGED <<payload, resp, result, app, cli>>

\* return TranslationParser.parse(raw)
Parse ==
    /\ pc = "extracted"
    /\ LET o == parse(raw[1]) IN
         /\ pc' = IF o.ok THEN "done" ELSE "failed"
         /\ result' = o.res
         /\ error' = o.err
    /\ UNCHANGED <<payload, resp, raw, app, cli>>

Next == ApiReturn \/ ExtractText \/ Parse

Spec == Init /\ [][Next]_vars

TypeOK ==
    /\ pc \in {"idle", "called", "extracted", "done", "failed"}
    /\ Len(raw) <= 1 /\ Len(result) <= 1 /\ Len(error) <= 1

(***************************************************************************)
(* Properties.                                                             *)
(***************************************************************************)
\* _extract_text returned
Extracted == Len(raw) = 1
\* parse was applied to the extracted value
ParseRan == pc \in {"done", "failed"} /\ Extracted
\* parse was applied to the text the upstream model wrote
ParsedPayloadText == ParseRan /\ raw[1] = PyStr(Text(payload[1]))
\* the JSON object that text denotes
IsPayload == payload[1].how \in JsonHows \cup DupHows /\ Denoted(payload[1]).t = "obj"
Obj == Denoted(payload[1]).v

Has(k) == HasKey(Obj, k)
Field(k) == GetItem(Obj, k)
FailedWith(msg) ==
    pc = "failed" /\ result = <<>> /\ error = <<[type |-> "ValueError", msg |-> msg]>>

WellFormed ==
    /\ payload[1].how \in JsonHows
    /\ payload[1].val.t = "obj"
    /\ Has("detected_language") /\ Field("detected_language").t = "str"
    /\ Has("translations") /\ Field("translations").t = "obj"
    /\ Len(Field("translations").v) >= 1
    /\ \A i \in 1..Len(Field("translations").v) :
          Field("translations").v[i].val.t = "str"

\* C1: a JSON object text with a string detected_language and a non-empty
\* string-to-string translations parses; detected_language and translations
\* come back exactly (same pairs in the same order) and original_text is the
\* payload's when present and "" when absent.
C1_RoundTrip ==
    (ParsedPayloadText /\ WellFormed) =>
        /\ pc = "done" /\ error = <<>> /\ Len(result) = 1
        /\ result[1].detected_language = Field("detected_language")
        /\ result[1].translations = Field("translations")
        /\ result[1].original_text =
              (IF Has("original_text") THEN Field("original_text") ELSE JStr(""))

C1_Witness ==
    /\ ParsedPayloadText /\ WellFormed /\ pc = "done"
    /\ Has("original_text") /\ Field("original_text") = JStr("Bonjour le monde")
    /\ Len(Field("translations").v) = 2
    /\ result[1].translations.v[1].k = "es"
    /\ result[1].translations.v[2].k = "en"

\* C2: every text that is not JSON makes parse fail with
\* "Expected JSON translation payload" and return nothing.
C2_NotJsonRejected ==
    (ParsedPayloadText /\ payload[1].how \in NotJsonHows) =>
        FailedWith("Expected JSON translation payload")

\* C3: a payload that lacks detected_language or translations fails with
\* "Missing required fields...", whatever its other keys.
C3_MissingFields ==
    (ParsedPayloadText /\ IsPayload
        /\ (~Has("detected_language") \/ ~Has("translations"))) =>
        FailedWith("Missing required fields: detected_language, translations")

C3_Witness ==
    /\ ParsedPayloadText /\ IsPayload /\ pc = "failed"
    /\ Has("detected_language") /\ Field("detected_language").t = "num"
    /\ ~Has("translations") /\ Has("confidence")

\* C4 as stated: a payload whose detected_language is not a string or whose
\* translations is not a mapping fails with "Invalid types...".
C4_AsStated ==
    (ParsedPayloadText /\ IsPayload /\ payload[1].how \in JsonHows
        /\ \/ (Has("detected_language") /\ Field("detected_language").t # "str")
           \/ (Has("translations") /\ Field("translations").t # "obj")) =>
        FailedWith("Invalid types for detected_language or translations")

\* C4 (amended): a payload that has both keys, and whose detected_language is
\* not a string or whose translations is not a mapping, fails with "Invalid
\* types..."; every result parse returns has a string detected_language and a
\* mapping translations.
C4_InvalidTypes ==
    /\ (ParsedPayloadText /\ IsPayload
          /\ Has("detected_language") /\ Has("translations")
          /\ (Field("detected_language").t # "str"
                \/ Field("translations").t # "obj")) =>
          FailedWith("Invalid types for detected_language or translations")
    /\ pc = "done" =>
          /\ result[1].detected_language.t = "str"
          /\ result[1].translations.t = "obj"

C4_Witness ==
    /\ ParsedPayloadText /\ IsPayload /\ pc = "failed"
    /\ Has("detected_language") /\ Field("detected_language").t = "num"
    /\ Has("translations") /\ Field("translations").t = "obj"
    /\ Len(Field("translations").v) = 2

\* C5: a JSON text whose top-level value is not an object fails with
\* "Expected JSON object at top level".
C5_TopLevel ==
    (ParsedPayloadText /\ payload[1].how \in JsonHows
        /\ payload[1].val.t # "obj") =>
        FailedWith("Expected JSON object at top level")

C5_Witness ==
    /\ ParsedPayloadText /\ payload[1].how \in JsonHows /\ pc = "failed"
    /\ payload[1].val.t = "arr" /\ Len(payload[1].val.v) = 3

\* C6: every result parse returns has at least one translation.
C6_NeverEmpty ==
    pc = "done" => Len(result[1].translations.v) >= 1

\* C7: _extract_text never raises: once responses.create has returned, the
\* extractor hands on a value.
C7_ExtractNeverRaises ==
    pc \in {"extracted", "done", "failed"} => Extracted

Reaches3(r) == r.ot \in {"absent", "nonstr", "method_typeerror"}

\* C8: the extractor returns the result of the first applicable strategy:
\* the call of a callable output_text, else a str output_text, else the
\* text of output[0].content[0], else str(resp); a TypeError raised by the
\* call sends it to the structured text.
C8_Precedence ==
    Extracted =>
        LET r == resp[1] IN
        /\ r.ot = "method_str" => raw[1] = PyStr(r.ottext)
        /\ r.ot = "method_nonstr" => raw[1] = NonStr
        /\ r.ot = "str" => raw[1] = PyStr(r.ottext)
        /\ (Reaches3(r) /\ HasText(r)) => raw[1] = PyStr(r.ctext)
        /\ (Reaches3(r) /\ ~HasText(r)) => raw[1] = str(r)

C8_Witness ==
    /\ Extracted
    /\ resp[1].ot = "method_typeerror" /\ HasText(resp[1])
    /\ resp[1].ctext # resp[1].ottext
    /\ raw[1] = PyStr(resp[1].ctext)

\* C9: in the structured strategy the text of output[0].content[0] is
\* returned for the attribute form and for the mapping form; when output or
\* content is missing, empty, not a list or raises, or the element has no
\* str text or raises, the extractor returns str(resp).
C9_Structured ==
    (Extracted /\ Reaches3(resp[1])) =>
        LET r == resp[1]
            walked == r.output = "list" /\ r.content = "list"
        IN
        /\ (walked /\ r.elem = "attr") => raw[1] = PyStr(r.ctext)
        /\ (walked /\ r.elem = "dict") => raw[1] = PyStr(r.ctext)
        /\ r.output \in {"absent", "raises", "notlist", "empty"} => raw[1] = str(r)
        /\ r.content \in {"absent", "raises", "notlist", "empty"} => raw[1] = str(r)
        /\ r.elem \in {"attr_nonstr", "dict_nonstr", "notext", "raises"} =>
              raw[1] = str(r)

C9_Witness ==
    /\ Extracted
    /\ resp[1].ot = "nonstr" /\ resp[1].elem = "dict"
    /\ raw[1] = PyStr(resp[1].ctext) /\ raw[1] # str(resp[1])

\* C10: the value _extract_text hands to the parser is always a str.
C10_AlwaysStr ==
    Extracted => raw[1].isstr

(***************************************************************************)
(* Strings the callers supply are sequences of characters.                 *)
(***************************************************************************)
TextChars == {" ", "a"}
Texts == UNION {[1..n -> TextChars] : n \in 0..MaxTextLen}

\* language codes a caller may ask for
CallCodes == {<<"e", "n">>, <<"e", "s">>, <<"x", "x">>}
TargetLists == UNION {[1..n -> CallCodes] : n \in 0..MaxTargets}

\* sep.join(items)
RECURSIVE join(_, _)
join(sep, items) ==
    IF Len(items) = 0 THEN <<>>
    ELSE IF Len(items) = 1 THEN items[1]
    ELSE items[1] \o sep \o join(sep, Tail(items))

(***************************************************************************)
(* Numbers given as temperature: [t |-> "none" | "int" | "float", v |->     *)
(* the value in tenths].                                                   *)
(***************************************************************************)
None == [t |-> "none", v |-> 0]
IntZero == [t |-> "int", v |-> 0]
float(x) == [t |-> "float", v |-> x.v]
TemperatureArgs == {None, IntZero, [t |-> "int", v |-> 10], [t |-> "float", v |-> 7]}

\* a model argument is <<>> (None) or <<name>>
ModelArgs == {<<>>, <<"">>, <<"gpt-4">>}
DefaultModel == "gpt-4o-mini"

(***************************************************************************)
(* TranslationClient.__init__                                              *)
(***************************************************************************)
\* the override is ignored
Temperature_AlwaysZero(temperature) == IntZero

Temperature(temperature) ==
    IF temperature = None THEN IntZero ELSE float(temperature)

TranslationClient(openai_client, model, temperature) ==
    [kind |-> "TranslationClient",
     inner |-> openai_client,
     model |-> <<IF model = <<>> \/ model[1] = "" THEN DefaultModel ELSE model[1]>>,
     temperature |-> Temperature(temperature)]

(***************************************************************************)
(* TranslationClient.translate: the request                                *)
(***************************************************************************)
SYSTEM_PROMPT == "You are a translation engine. ..."

\* the separator of the target codes
TargetSeparator == <<" ">>

\* the codes de-duplicated before they are joined
RECURSIVE Targets_Deduplicated(_)
Targets_Deduplicated(targets) ==
    IF Len(targets) = 0 THEN <<>>
    ELSE LET front == Targets_Deduplicated(SubSeq(targets, 1, Len(targets) - 1))
             last == targets[Len(targets)]
         IN IF \E i \in 1..Len(front) : front[i] = last THEN front
            ELSE Append(front, last)

Targets(targets) == targets

user_prompt(text, targets) ==
    <<"Text: \"">> \o text \o <<"\"", "\n">>
    \o <<"Targets (space-separated codes): ">>
    \o join(TargetSeparator, Targets(targets))

Message(role, content) == [role |-> role, content |-> content]

CreateArgs(self, text, targets) ==
    [model |-> self.model[1],
     input |-> <<Message("system", <<SYSTEM_PROMPT>>),
                 Message("user", user_prompt(text, targets))>>,
     temperature |-> self.temperature]

(***************************************************************************)
(* TranslationService.__init__                                             *)
(* The object given as openai_client: [kind, translate, model], translate  *)
(* and model being its attributes of those names.                          *)
(***************************************************************************)
OpenAIClient == [kind |-> "OpenAI", translate |-> "absent", model |-> <<>>]
ServiceInputs ==
    {OpenAIClient,
     [kind |-> "None", translate |-> "absent", model |-> <<>>],
     [kind |-> "object", translate |-> "notcallable", model |-> <<>>],
     [kind |-> "client", translate |-> "callable", model |-> <<>>],
     [kind |-> "client", translate |-> "callable", model |-> <<"preset">>]}

\* hasattr alone, the attribute not called for
HasTranslate_AttrOnly(openai_client) == openai_client.translate # "absent"

\* hasattr(openai_client, 'translate') and callable(...)
HasTranslate(openai_client) == openai_client.translate = "callable"

\* the object itself, seen as the client
Given(openai_client) ==
    [kind |-> "given", inner |-> openai_client, model |-> openai_client.model,
     temperature |-> None]

\* the model never assigned after construction
ServiceClient_NoOverride(openai_client, model) ==
    IF HasTranslate(openai_client) THEN Given(openai_client)
    ELSE TranslationClient(openai_client, model, None)

\* self.client after __init__
ServiceClient(openai_client, model) ==
    LET c == IF HasTranslate(openai_client) THEN Given(openai_client)
             ELSE TranslationClient(openai_client, model, None)
    IN IF model # <<>> THEN [c EXCEPT !.model = model] ELSE c

TranslationService(openai_client, model) == [model |-> model]

\* service.translate hands text and targets on as keyword arguments
Forward(text, targets) == [text |-> text, targets |-> targets]

(***************************************************************************)
(* Exceptions: [type, msg].  KeyboardInterrupt derives from BaseException  *)
(* only, so `except Exception` does not catch it.                          *)
(***************************************************************************)
Exc(type, msg) == [type |-> type, msg |-> msg]
IsException(e) == e.type # "KeyboardInterrupt"
ApiErrors == {Exc("APIConnectionError", "Connection error."),
              Exc("KeyboardInterrupt", "")}

\* what service.translate gives its caller
Returned(value) == [raised |-> FALSE, value |-> value, type |-> "", prefix |-> "", msg |-> ""]
Raised(type, prefix, msg) ==
    [raised |-> TRUE, value |-> <<>>, type |-> type, prefix |-> prefix, msg |-> msg]

\* the exception handed on as it is
service_translate_Unwrapped(done, res, err) ==
    IF done THEN Returned(res)
    ELSE Raised(err[1].type, "", err[1].msg)

\* try: return self.client.translate(...) except Exception as e: raise ValueError(...)
service_translate(done, res, err) ==
    IF done THEN Returned(res)
    ELSE IF IsException(err[1])
         THEN Raised("ValueError", "Translation API error: ", err[1].msg)
         ELSE Raised(err[1].type, "", err[1].msg)

(***************************************************************************)
(* The responses and stub results these runs use.                          *)
(***************************************************************************)
Sh(ot, output, content, elem) ==
    [kind |-> "obj", ot |-> ot, output |-> output, content |-> content,
     elem |-> elem]
GoodInput ==
    [how |-> "dumps",
     val |-> JObj(<<Pair("detected_language", JStr("French")),
                    Pair("translations", Mapping(<<"en", "es">>))>>)]
PartialInput ==
    [how |-> "dumps", val |-> JObj(<<Pair("detected_language", JStr("French"))>>)]
ProseInput == [how |-> "prose", val |-> JNull]

SmallResponses ==
    {[sh |-> Sh("method_str", "absent", "absent", "notext"), inp |-> GoodInput,
      carrier |-> "ot"],
     [sh |-> Sh("str", "absent", "absent", "notext"), inp |-> ProseInput,
      carrier |-> "ot"],
     [sh |-> Sh("str", "absent", "absent", "notext"), inp |-> PartialInput,
      carrier |-> "ot"],
     [sh |-> Sh("absent", "list", "list", "dict"), inp |-> GoodInput,
      carrier |-> "content"],
     [sh |-> Sh("method_nonstr", "absent", "absent", "notext"),
      inp |-> DefaultInput, carrier |-> "none"],
     [sh |-> Sh("method_raises", "absent", "absent", "notext"),
      inp |-> DefaultInput, carrier |-> "none"]}

StubResult ==
    TranslationResult(JStr("Hello"), JStr("English"),
                      JObj(<<Pair("es", JStr("Hola"))>>))
StubErrors == {Exc("RuntimeError", "API error"), Exc("ValueError", MsgNotJson),
               Exc("KeyboardInterrupt", "")}

(***************************************************************************)
(* Library use: a client or a service is built and translate is called.    *)
(*   pc: new -> ready -> request | stub -> called -> extracted             *)
(*       -> done | failed                                                  *)
(***************************************************************************)
InitApp ==
    /\ pc = "new"
    /\ payload = <<>> /\ resp = <<>> /\ raw = <<>> /\ result = <<>>
    /\ error = <<>>
    /\ service = <<>> /\ client = <<>> /\ built = <<>> /\ asked = <<>> /\ call = <<>>
    /\ request = <<>> /\ calls = 0 /\ outcome = <<>>
    /\ argv = <<>> /\ exit = <<>> /\ stderr = <<>> /\ mode = ""
    /\ frame = <<>> /\ returned = <<>> /\ escaped = <<>>
    /\ arg = <<>> /\ outs = <<>>

\* TranslationClient(openai_client, model, temperature)
NewClient ==
    /\ pc = "new" /\ argv = <<>>
    /\ \E m \in ModelArgs, t \in TemperatureArgs :
          /\ client' = <<TranslationClient(OpenAIClient, m, t)>>
          /\ built' = <<[openai_client |-> OpenAIClient, model |-> m,
                         temperature |-> t]>>
    /\ pc' = "ready"
    /\ UNCHANGED <<payload, resp, raw, result, error, service, asked, call,
                   request, calls, outcome, cli>>

\* TranslationService(openai_client, model)
NewService ==
    /\ pc = "new" /\ argv = <<>>
    /\ \E inp \in ServiceInputs, m \in ModelArgs :
          /\ client' = <<ServiceClient(inp, m)>>
          /\ service' = <<TranslationService(inp, m)>>
          /\ built' = <<[openai_client |-> inp, model |-> m,
                         temperature |-> None]>>
    /\ pc' = "ready"
    /\ UNCHANGED <<payload, resp, raw, result, error, asked, call, request,
                   calls, outcome, cli>>

\* client.translate(text=..., targets=...) called directly
ClientTranslate ==
    /\ pc = "ready" /\ service = <<>>
    /\ \E text \in Texts, targets \in TargetLists :
          /\ asked' = <<[text |-> text, targets |-> targets]>>
          /\ call' = <<[text |-> text, targets |-> targets]>>
    /\ pc' = "request"
    /\ UNCHANGED <<payload, resp, raw, result, error, service, client, built,
                   request, calls, outcome, cli>>

\* service.translate(text=..., targets=...) up to self.client.translate(...)
ServiceTranslate ==
    /\ pc = "ready" /\ service # <<>> /\ argv = <<>>
    /\ \E text \in Texts, targets \in TargetLists :
          /\ asked' = <<[text |-> text, targets |-> targets]>>
          /\ call' = <<Forward(text, targets)>>
    /\ pc' = IF client[1].kind = "given" THEN "stub" ELSE "request"
    /\ UNCHANGED <<payload, resp, raw, result, error, service, client, built,
                   request, calls, outcome, cli>>

\* self.client.responses.create(...) returns
CreateReturns ==
    /\ pc = "request"
    /\ request' = <<CreateArgs(client[1], call[1].text, call[1].targets)>>
    /\ calls' = calls + 1
    /\ \E r \in SmallResponses :
          /\ resp' = <<Response(r.sh, r.inp, r.carrier)>>
          /\ payload' = <<r.inp>>
    /\ pc' = "called"
    /\ UNCHANGED <<raw, result, error, service, client, built, asked, call,
                   outcome, cli>>

\* a retry after the API raised
CreateRaises_Retries ==
    /\ pc = "request" /\ calls < 3
    /\ request' = <<CreateArgs(client[1], call[1].text, call[1].targets)>>
    /\ calls' = calls + 1
    /\ UNCHANGED <<pc, payload, resp, raw, result, error, service, client,
                   built, asked, call, outcome, cli>>

\* self.client.responses.create(...) raises
CreateRaises ==
    /\ pc = "request"
    /\ request' = <<CreateArgs(client[1], call[1].text, call[1].targets)>>
    /\ calls' = calls + 1
    /\ \E e \in ApiErrors : error' = <<e>>
    /\ pc' = "failed"
    /\ UNCHANGED <<payload, resp, raw, result, service, client, built, asked,
                   call, outcome, cli>>

\* translate of an object given as the client: any result, any exception
StubTranslate ==
    /\ pc = "stub"
    /\ \/ /\ result' = <<StubResult>> /\ error' = error /\ pc' = "done"
       \/ /\ \E e \in StubErrors : error' = <<e>>
          /\ result' = result /\ pc' = "failed"
    /\ UNCHANGED <<payload, resp, raw, app, cli>>

\* service.translate returns or raises
ServiceReturn ==
    /\ pc \in {"done", "failed"} /\ service # <<>> /\ outcome = <<>>
    /\ outcome' = <<service_translate(pc = "done", result, error)>>
    /\ UNCHANGED <<pipe, service, client, built, asked, call, request, calls,
                   cli>>

NextApp ==
    \/ NewClient \/ NewService \/ ClientTranslate \/ ServiceTranslate
    \/ CreateReturns \/ CreateRaises \/ StubTranslate
    \/ ExtractText \/ Parse \/ ServiceReturn

SpecApp == InitApp /\ [][NextApp]_vars

(***************************************************************************)
(* Claims about the request and the single API call                        *)
(***************************************************************************)
Requested == request # <<>>
UserMessage == request[1].input[2].content
Contains(m, sub) ==
    \E i \in 1..(Len(m) - Len(sub) + 1) : SubSeq(m, i, i + Len(sub) - 1) = sub

C12_CommaJoined ==
    (Requested /\ call[1].targets = <<(<<"e", "n">>), (<<"e", "s">>)>>) =>
        Contains(UserMessage, <<"e", "n", ",", " ", "e", "s">>)

\* C13: a request of a client built directly carries temperature 0 when no
\* temperature (None) was given and the given value otherwise, and carries the
\* model given at construction, "gpt-4o-mini" when none was given.
C13_TemperatureAndModel ==
    (Requested /\ service = <<>>) =>
        LET given == built[1]
            sent == request[1]
        IN /\ given.temperature.t = "none" =>
                 sent.temperature = [t |-> "int", v |-> 0]
           /\ given.temperature.t # "none" =>
                 sent.temperature.v = given.temperature.v
           /\ given.model = <<>> => sent.model = "gpt-4o-mini"
           /\ (given.model # <<>> /\ given.model[1] # "") =>
                 sent.model = given.model[1]
           /\ sent.model = client[1].model[1]

C13_Witness ==
    /\ Requested /\ service = <<>>
    /\ built[1].temperature = [t |-> "int", v |-> 10]
    /\ built[1].model = <<>>

ApiRaised == Requested /\ resp = <<>>

\* C14: one translate call of the client makes exactly one API call: none
\* before the request, one from then on; when the API call raised, its
\* exception is the outcome and neither extraction nor parsing ran; when
\* extraction or parsing failed, the error is the outcome and the count stays
\* at one.
C14_OneApiCall ==
    /\ calls <= 1
    /\ Requested <=> calls = 1
    /\ ApiRaised =>
          /\ pc = "failed" /\ raw = <<>> /\ result = <<>>
          /\ error # <<>>
          /\ error[1].type \in {"APIConnectionError", "KeyboardInterrupt"}
    /\ (Requested /\ resp # <<>> /\ pc = "failed") =>
          /\ error # <<>> /\ result = <<>> /\ calls = 1

C14_Witness == ApiRaised /\ pc = "failed" /\ calls = 1

(***************************************************************************)
(* Claims about TranslationService                                         *)
(***************************************************************************)
ServiceDone == service # <<>> /\ outcome # <<>>

C16_ClientResolution ==
    service # <<>> =>
        LET inp == built[1].openai_client
            c == client[1]
        IN /\ Len(client) = 1
           /\ inp.translate = "callable" =>
                 (c.kind = "given" /\ c.inner = inp)
           /\ inp.translate # "callable" =>
                 /\ c.kind = "TranslationClient" /\ c.inner = inp
                 /\ c.temperature = [t |-> "int", v |-> 0]
                 /\ built[1].model = <<>> => c.model = <<"gpt-4o-mini">>
                 /\ built[1].model # <<>> => c.model = built[1].model
           /\ call # <<>> =>
                 /\ call[1].text = asked[1].text
                 /\ call[1].targets = asked[1].targets

C16_Witness ==
    /\ service # <<>> /\ call # <<>>
    /\ built[1].openai_client.translate = "notcallable"
    /\ Len(call[1].targets) = 2

\* C17: with a non-null model the client's model and service.model are that
\* model, whether the client was given or built; with a null model the model
\* attribute of a given client stays as it was.
C17_ModelOverride ==
    service # <<>> =>
        LET inp == built[1].openai_client
            model == built[1].model
        IN /\ model # <<>> =>
                 (client[1].model = model /\ service[1].model = model)
           /\ (model = <<>> /\ inp.translate = "callable") =>
                 client[1].model = inp.model

C17_Witness ==
    /\ service # <<>>
    /\ built[1].model = <<"gpt-4">>
    /\ built[1].openai_client.translate = "callable"
    /\ built[1].openai_client.model = <<"preset">>

(***************************************************************************)
(* The command line programs: main.py (translate subcommand) and           *)
(* translate_main.py.  A string is the sequence of its characters; an      *)
(* optional argument is <<>> when absent and <<value>> when given.         *)
(***************************************************************************)
UpperCase == <<"A", "B", "C", "D", "E", "F", "G", "H", "I", "J", "K", "L", "M",
               "N", "O", "P", "Q", "R", "S", "T", "U", "V", "W", "X", "Y", "Z">>
LowerCase == <<"a", "b", "c", "d", "e", "f", "g", "h", "i", "j", "k", "l", "m",
               "n", "o", "p", "q", "r", "s", "t", "u", "v", "w", "x", "y", "z">>
Letters == {UpperCase[i] : i \in DOMAIN UpperCase}
               \cup {LowerCase[i] : i \in DOMAIN LowerCase}
Whitespace == {" ", "\t", "\n"}

\* str.lower()
LowerChar(c) ==
    IF \E i \in DOMAIN UpperCase : UpperCase[i] = c
    THEN LowerCase[CHOOSE i \in DOMAIN UpperCase : UpperCase[i] = c]
    ELSE c
lower(t) == [i \in DOMAIN t |-> LowerChar(t[i])]

\* str.strip() leaves nothing
Blank(t) == \A i \in DOMAIN t : t[i] \in Whitespace

\* re.fullmatch(r"[A-Za-z]{2,3}", t)
fullmatch(t) == Len(t) \in 2..3 /\ \A i \in DOMAIN t : t[i] \in Letters

allowed ==
    {<<"e", "n">>, <<"e", "s">>, <<"d", "e">>, <<"f", "r">>, <<"i", "t">>,
     <<"p", "t">>, <<"z", "h">>, <<"j", "a">>, <<"k", "o">>, <<"r", "u">>,
     <<"a", "r">>, <<"h", "i">>, <<"n", "l">>, <<"s", "v">>, <<"n", "o">>,
     <<"d", "a">>, <<"f", "i">>, <<"p", "l">>, <<"c", "s">>, <<"t", "r">>,
     <<"e", "l">>, <<"h", "e">>, <<"t", "h">>, <<"v", "i">>, <<"i", "d">>,
     <<"r", "o">>, <<"b", "g">>, <<"u", "k">>}

\* every well-formed code passes
InAllowList_Skipped(t) == TRUE

\* t.lower() in allowed
InAllowList(t) == lower(t) \in allowed

\* the codes one of the two checks rejects
invalid(to) ==
    {to[i] : i \in {j \in DOMAIN to : ~fullmatch(to[j]) \/ ~InAllowList(to[j])}}

\* only the empty string counts as no text
EmptyText_NotStripped(text) == Len(text) = 0

\* not args.text or not args.text.strip()
EmptyText(text) == Len(text) = 0 \/ Blank(text)

MsgEmptyText == "Error: empty text provided. Please provide text to translate"
MsgNoTargets == "Error: no target languages provided. Use --to en es de"
MsgInvalidCode == "Error: invalid language code"
MsgNoApiKey == "Error: OPENAI_API_KEY not found in environment variables"
MsgMainNoApiKey == "Invalid Input: OPENAI_API_KEY not found in environment variables"
MsgToRequired == "Error: --to flag required when providing text directly"
MsgTry == "Try: python -m src.translate_main \"your text\" --to en es de"
MsgOrInteractive == "Or run without arguments for interactive mode"
MsgCancelled == "Translation cancelled by user."
MsgMainCancelled == "Operation cancelled by user."

\* what a program does once its arguments are checked
Stop(code, lines) == [go |-> "exit", code |-> code, lines |-> lines]
Interactive == [go |-> "interactive", code |-> 0, lines |-> <<>>]
Translate == [go |-> "translate", code |-> 0, lines |-> <<>>]

\* main.main up to the service call of handle_translate
main_checks(args) ==
    IF ~args.api_key THEN Stop(1, <<MsgMainNoApiKey>>)
    ELSE IF EmptyText(args.text[1]) THEN Stop(1, <<MsgEmptyText>>)
    ELSE IF Len(args.to) = 0 THEN Stop(1, <<MsgNoTargets>>)
    ELSE IF invalid(args.to) # {} THEN Stop(1, <<MsgInvalidCode>>)
    ELSE Translate

\* translate_main.main up to interactive_mode or the service call
translate_main_checks(args) ==
    IF ~args.api_key THEN Stop(1, <<MsgNoApiKey>>)
    ELSE IF args.text = <<>> \/ Len(args.text[1]) = 0 THEN Interactive
    ELSE IF Len(args.to) = 0
         THEN Stop(1, <<MsgToRequired, MsgTry, MsgOrInteractive>>)
    ELSE IF Blank(args.text[1]) THEN Stop(1, <<MsgEmptyText>>)
    ELSE IF invalid(args.to) # {} THEN Stop(1, <<MsgInvalidCode>>)
    ELSE Translate

checks(args) ==
    IF args.prog = "main" THEN main_checks(args)
    ELSE translate_main_checks(args)

\* an interrupt counted as a failure like any other
finish_InterruptFails(prog, o) ==
    IF ~o.raised THEN Stop(0, <<>>)
    ELSE Stop(1, <<"Error: ", o.prefix, o.msg>>)

\* the end of a program whose service.translate returned or raised
finish(prog, o) ==
    IF ~o.raised THEN Stop(0, <<>>)
    ELSE IF o.type = "KeyboardInterrupt"
         THEN Stop(130, <<IF prog = "main" THEN MsgMainCancelled
                          ELSE MsgCancelled>>)
    ELSE Stop(1, <<"Error: ", o.prefix, o.msg>>)

CliCodes == {<<"e", "n">>, <<"e", "s">>, <<"E", "N">>, <<"x", "x">>, <<"e">>,
             <<"e", "n", "g">>, <<"e", "1">>, <<>>, <<"e", "n", "g", "l">>}
CliTargetLists == UNION {[1..n -> CliCodes] : n \in 0..MaxTargets}
CliModels == {"gpt-4o-mini", "gpt-4"}
Progs == {"main", "translate_main"}
Argvs ==
    {a \in [prog : Progs, text : {<<>>} \cup {<<t>> : t \in Texts},
            to : CliTargetLists, model : CliModels, api_key : BOOLEAN] :
        \* the text of the translate subcommand is a required positional
        a.prog = "main" => a.text # <<>>}

InitCli ==
    /\ pc = "parsed"
    /\ argv \in {<<a>> : a \in Argvs}
    /\ payload = <<>> /\ resp = <<>> /\ raw = <<>> /\ result = <<>>
    /\ error = <<>>
    /\ service = <<>> /\ client = <<>> /\ built = <<>> /\ asked = <<>>
    /\ call = <<>> /\ request = <<>> /\ calls = 0 /\ outcome = <<>>
    /\ exit = <<>> /\ stderr = <<>> /\ mode = ""
    /\ frame = <<>> /\ returned = <<>> /\ escaped = <<>>
    /\ arg = <<>> /\ outs = <<>>

\* the checks fail: the program prints and returns
Reject ==
    /\ pc = "parsed" /\ checks(argv[1]).go = "exit"
    /\ exit' = <<checks(argv[1]).code>>
    /\ stderr' = checks(argv[1]).lines
    /\ pc' = "exited"
    /\ UNCHANGED <<payload, resp, raw, result, error, app, argv, mode, frame,
                   returned, escaped, arg, outs>>

\* translate_main.main hands over to interactive_mode
EnterInteractive ==
    /\ pc = "parsed" /\ checks(argv[1]).go = "interactive"
    /\ mode' = "interactive"
    /\ pc' = "interactive"
    /\ UNCHANGED <<payload, resp, raw, result, error, app, argv, exit, stderr,
                   frame, returned, escaped, arg, outs>>

\* the checks pass: the service is built and service.translate is called
Direct ==
    /\ pc = "parsed" /\ checks(argv[1]).go = "translate"
    /\ mode' = "direct"
    /\ built' = <<[openai_client |-> OpenAIClient,
                   model |-> <<argv[1].model>>, temperature |-> None]>>
    /\ client' = <<ServiceClient(OpenAIClient, <<argv[1].model>>)>>
    /\ service' = <<TranslationService(OpenAIClient, <<argv[1].model>>)>>
    /\ asked' = <<[text |-> argv[1].text[1], targets |-> argv[1].to]>>
    /\ call' = <<Forward(argv[1].text[1], argv[1].to)>>
    /\ pc' = "request"
    /\ UNCHANGED <<payload, resp, raw, result, error, request, calls, outcome,
                   argv, exit, stderr, frame, returned, escaped, arg, outs>>

\* the program displays the result or reports the error, and returns
Finish ==
    /\ argv # <<>> /\ mode = "direct" /\ outcome # <<>> /\ exit = <<>>
    /\ exit' = <<finish(argv[1].prog, outcome[1]).code>>
    /\ stderr' = stderr \o finish(argv[1].prog, outcome[1]).lines
    /\ UNCHANGED <<pipe, app, argv, mode, frame, returned, escaped, arg, outs>>

NextCli ==
    \/ Reject \/ EnterInteractive \/ Direct
    \/ CreateReturns \/ CreateRaises \/ ExtractText \/ Parse
    \/ ServiceReturn \/ Finish

SpecCli == InitCli /\ [][NextCli]_vars

(***************************************************************************)
(* Claims about the checks of the command line programs                    *)
(***************************************************************************)
Ran == argv # <<>> /\ pc # "parsed"
OnlySpaces(t) == \A i \in DOMAIN t : t[i] = " "
NeverTranslated == service = <<>> /\ call = <<>> /\ calls = 0
ValidCode(t) ==
    /\ Len(t) \in {2, 3}
    /\ \A i \in DOMAIN t : t[i] \in Letters
    /\ lower(t) \in allowed
SomeInvalid == \E i \in DOMAIN argv[1].to : ~ValidCode(argv[1].to[i])
DirectText == argv[1].text # <<>> /\ ~OnlySpaces(argv[1].text[1])

\* C18: handle_translate of main.py, given an empty or whitespace-only text,
\* returns 1 with the "empty text" error on stderr whatever --to holds, and
\* neither builds nor calls the service.
C18_EmptyText ==
    (Ran /\ argv[1].prog = "main" /\ argv[1].api_key
         /\ OnlySpaces(argv[1].text[1])) =>
        /\ exit = <<1>>
        /\ stderr = <<"Error: empty text provided. Please provide text to translate">>
        /\ NeverTranslated

C18_Witness ==
    /\ Ran /\ argv[1].prog = "main" /\ argv[1].api_key
    /\ argv[1].text = <<(<<" ", " ">>)>>
    /\ argv[1].to = <<(<<"e", "n">>)>>
    /\ exit = <<1>>

\* C19: translate_main.main, given the text "" and some --to codes, returns 1
\* with the "empty text" error on stderr, does not enter interactive mode and
\* does not call the service.
C19_EmptyTextRejected ==
    (Ran /\ argv[1].prog = "translate_main" /\ argv[1].api_key
         /\ argv[1].text = <<(<<>>)>> /\ Len(argv[1].to) > 0) =>
        /\ exit = <<1>>
        /\ stderr = <<"Error: empty text provided. Please provide text to translate">>
        /\ mode # "interactive"
        /\ NeverTranslated

\* C20 as stated: whenever a text was given and some code is malformed or
\* outside the allow-list, the program returns 1 with "invalid language code".
C20_AsStated ==
    (Ran /\ argv[1].api_key /\ argv[1].text # <<>>
         /\ Len(argv[1].text[1]) > 0 /\ SomeInvalid) =>
        /\ exit = <<1>>
        /\ stderr = <<"Error: invalid language code">>
        /\ NeverTranslated

\* C20: in both programs service.translate is called only with codes that all
\* match [A-Za-z]{2,3} and are, lower-cased, in the allow-list; with an API
\* key and a text that is not blank, a list holding any other code makes the
\* program return 1 with "invalid language code" on stderr; a list holding
\* such a code never leads to a call of the service.
C20_InvalidCodes ==
    Ran =>
        /\ call # <<>> =>
              \A i \in DOMAIN argv[1].to : ValidCode(argv[1].to[i])
        /\ SomeInvalid => NeverTranslated
        /\ (SomeInvalid /\ argv[1].api_key /\ DirectText) =>
              /\ exit = <<1>>
              /\ stderr = <<"Error: invalid language code">>

C20_Witness ==
    /\ Ran /\ argv[1].prog = "translate_main" /\ argv[1].api_key
    /\ argv[1].text = <<(<<"a">>)>>
    /\ argv[1].to = <<(<<"E", "N">>), (<<"x", "x">>)>>
    /\ exit = <<1>> /\ stderr = <<"Error: invalid language code">>

\* C21: a non-empty text given without target codes makes both programs
\* return 1 with an error on stderr and never call service.translate, and
\* translate_main.main enters interactive mode only when no text argument is
\* given.
C21_DirectNeedsTo ==
    Ran =>
        /\ (argv[1].text # <<>> /\ Len(argv[1].text[1]) > 0
               /\ Len(argv[1].to) = 0) =>
              (exit = <<1>> /\ Len(stderr) > 0 /\ NeverTranslated)
        /\ mode = "interactive" => argv[1].text = <<>>

(***************************************************************************)
(* The prompts of translate_main.py.  A line typed by the user is the      *)
(* sequence of its characters.                                             *)
(***************************************************************************)
\* str.strip()
RECURSIVE lstrip(_)
lstrip(s) ==
    IF Len(s) > 0 /\ s[1] \in Whitespace THEN lstrip(Tail(s)) ELSE s
RECURSIVE rstrip(_)
rstrip(s) ==
    IF Len(s) > 0 /\ s[Len(s)] \in Whitespace
    THEN rstrip(SubSeq(s, 1, Len(s) - 1)) ELSE s
strip(s) == rstrip(lstrip(s))

\* the length of the run of non-blank characters s starts with
RECURSIVE WordLen(_)
WordLen(s) ==
    IF Len(s) = 0 \/ s[1] \in Whitespace THEN 0 ELSE 1 + WordLen(Tail(s))

\* str.split()
RECURSIVE split(_)
split(s) ==
    IF Len(s) = 0 THEN <<>>
    ELSE IF s[1] \in Whitespace THEN split(Tail(s))
    ELSE <<SubSeq(s, 1, WordLen(s))>>
             \o split(SubSeq(s, WordLen(s) + 1, Len(s)))

\* one turn of a prompt loop: ask again, or return a value
Again == [again |-> TRUE, value |-> <<>>]
Returns(value) == [again |-> FALSE, value |-> <<value>>]

QuitWords == {<<"q">>, <<"q", "u", "i", "t">>, <<"e", "x", "i", "t">>}
YesWords == {<<"y">>, <<"y", "e", "s">>}
NoWords == {<<"n">>, <<"n", "o">>}

\* prompt_for_text, given the line input() returned: '' stands for quit
prompt_for_text(line) ==
    IF lower(strip(line)) \in QuitWords THEN Returns(<<>>)
    ELSE IF Len(strip(line)) > 0 THEN Returns(strip(line))
    ELSE Again

\* the first three codes are not cut off
Truncate_Keeps(languages) == languages

\* languages[:3]
Truncate(languages) ==
    IF Len(languages) > 3 THEN SubSeq(languages, 1, 3) ELSE languages

\* prompt_for_languages, given the line input() returned
prompt_for_languages(line) ==
    LET lang_input == lower(strip(line))
        languages == split(lang_input)
    IN IF Len(lang_input) = 0 THEN Again
       ELSE IF \E i \in DOMAIN languages : languages[i] \notin allowed
            THEN Again
       ELSE Returns(Truncate(languages))

\* prompt_continue, given the line input() returned
prompt_continue(line) ==
    LET choice == lower(strip(line))
    IN IF choice \in YesWords THEN Returns(TRUE)
       ELSE IF choice \in NoWords THEN Returns(FALSE)
       ELSE Again

en == <<"e", "n">>
RECURSIVE Without(_, _)
Without(targets, code) ==
    IF Len(targets) = 0 THEN <<>>
    ELSE IF targets[1] = code THEN Without(Tail(targets), code)
    ELSE <<targets[1]>> \o Without(Tail(targets), code)

\* 'en' put in front of the list as it is
ensure_english_included_Prepends(targets) == <<en>> \o targets

\* ensure_english_included
ensure_english_included(targets) ==
    IF \E i \in DOMAIN targets : targets[i] = en
    THEN <<en>> \o Without(targets, en)
    ELSE <<en>> \o targets

(***************************************************************************)
(* ensure_english_included applied to a list, and again to its result.     *)
(***************************************************************************)
EnsureCodes == {<<"e", "n">>, <<"e", "s">>, <<"f", "r">>, <<"E", "N">>}
EnsureInputs == UNION {[1..n -> EnsureCodes] : n \in 0..MaxListLen}

InitEnsure ==
    /\ pc = "ensure"
    /\ arg \in {<<l>> : l \in EnsureInputs}
    /\ outs = <<>>
    /\ payload = <<>> /\ resp = <<>> /\ raw = <<>> /\ result = <<>>
    /\ error = <<>>
    /\ service = <<>> /\ client = <<>> /\ built = <<>> /\ asked = <<>>
    /\ call = <<>> /\ request = <<>> /\ calls = 0 /\ outcome = <<>>
    /\ argv = <<>> /\ exit = <<>> /\ stderr = <<>> /\ mode = ""
    /\ frame = <<>> /\ returned = <<>> /\ escaped = <<>>

\* targets = ensure_english_included(targets)
EnsureEnglish ==
    /\ pc = "ensure"
    /\ outs' = <<ensure_english_included(arg[1])>>
    /\ pc' = "once"
    /\ UNCHANGED <<payload, resp, raw, result, error, app, argv, exit, stderr,
                   mode, frame, returned, escaped, arg>>

\* the result given to ensure_english_included once more
EnsureEnglishAgain ==
    /\ pc = "once"
    /\ outs' = Append(outs, ensure_english_included(outs[1]))
    /\ pc' = "twice"
    /\ UNCHANGED <<payload, resp, raw, result, error, app, argv, exit, stderr,
                   mode, frame, returned, escaped, arg>>

NextEnsure == EnsureEnglish \/ EnsureEnglishAgain

SpecEnsure == InitEnsure /\ [][NextEnsure]_vars

NotEn(code) == code # <<"e", "n">>

\* C24: the list ensure_english_included returns starts with 'en', holds 'en'
\* exactly once, and goes on with the non-'en' elements of its input in their
\* order; applied to its own result it returns that result.
C24_EnglishFirst ==
    pc \in {"once", "twice"} =>
        /\ outs[1][1] = <<"e", "n">>
        /\ Cardinality({i \in DOMAIN outs[1] : outs[1][i] = <<"e", "n">>}) = 1
        /\ Tail(outs[1]) = SelectSeq(arg[1], NotEn)
        /\ pc = "twice" => outs[2] = outs[1]

C24_Witness ==
    /\ pc = "twice"
    /\ arg[1] = <<(<<"e", "s">>), (<<"e", "n">>), (<<"e", "n">>)>>
    /\ outs[2] = <<(<<"e", "n">>), (<<"e", "s">>)>>

(***************************************************************************)
(* prompt_for_languages reading lines.  A typed line is kept with the      *)
(* codes the user meant: [tokens, line].                                   *)
(***************************************************************************)
PromptTokens == {<<"e", "s">>, <<"E", "N">>, <<"x", "x">>}
TokenLists == UNION {[1..n -> PromptTokens] : n \in 0..MaxTokens}
\* the codes with one space between them, or with blanks around and two
\* spaces between them
Typed(tokens) ==
    {[tokens |-> tokens, line |-> join(<<" ">>, tokens)],
     [tokens |-> tokens,
      line |-> <<" ">> \o join(<<" ", " ">>, tokens) \o <<" ", "\t">>]}
PromptLines == UNION {Typed(tokens) : tokens \in TokenLists}

InitPrompt ==
    /\ pc = "lang_prompt"
    /\ arg = <<>> /\ outs = <<>>
    /\ payload = <<>> /\ resp = <<>> /\ raw = <<>> /\ result = <<>>
    /\ error = <<>>
    /\ service = <<>> /\ client = <<>> /\ built = <<>> /\ asked = <<>>
    /\ call = <<>> /\ request = <<>> /\ calls = 0 /\ outcome = <<>>
    /\ argv = <<>> /\ exit = <<>> /\ stderr = <<>> /\ mode = ""
    /\ frame = <<>> /\ returned = <<>> /\ escaped = <<>>

\* one turn of the loop of prompt_for_languages: a line is read
ReadLanguages ==
    /\ pc = "lang_prompt" /\ argv = <<>>
    /\ \E typed \in PromptLines :
          /\ arg' = <<typed>>
          /\ outs' = <<prompt_for_languages(typed.line)>>
          /\ pc' = IF prompt_for_languages(typed.line).again
                   THEN "lang_prompt" ELSE "languages"
    /\ UNCHANGED <<payload, resp, raw, result, error, app, argv, exit, stderr,
                   mode, frame, returned, escaped>>

NextPrompt == ReadLanguages

SpecPrompt == InitPrompt /\ [][NextPrompt]_vars

Accepted(tokens) == \A i \in DOMAIN tokens : lower(tokens[i]) \in allowed

TypedLine(chars) == [kind |-> "line", chars |-> chars]
CtrlC == [kind |-> "interrupt", chars |-> <<>>]
EndOfInput == [kind |-> "eof", chars |-> <<>>]

TextLines ==
    {<<"q">>,
     <<" ", "Q", "U", "I", "T", " ">>,
     <<"e", "x", "i", "t">>,
     (<<>>),
     <<" ", " ">>,
     <<"a">>,
     <<" ", "a", " ">>}
LanguageLines ==
    {(<<>>),
     <<"e", "s">>,
     <<"E", "N", " ", "e", "s">>,
     <<"e", "s", " ", "x", "x">>,
     <<" ", "f", "r", " ", " ", "e", "n", " ">>,
     <<"e", "s", " ", "f", "r", " ", "d", "e", " ", "j", "a">>}
ContinueLines ==
    {<<"y">>,
     <<" ", "Y", "E", "S">>,
     <<"n">>,
     <<"N", "o", " ">>,
     (<<>>),
     <<"x">>}
Events(lines) == {TypedLine(l) : l \in lines} \cup {CtrlC, EndOfInput}

MsgEOF == "EOF when reading a line"

\* the arguments main is run with
MainArgvs ==
    {a \in Argvs : /\ a.prog = "translate_main"
                   /\ a.model = "gpt-4o-mini"
                   /\ a.to \in {<<>>, <<(<<"e", "n">>)>>, <<(<<"x", "x">>)>>}
                   /\ a.text # <<>> => Len(a.text[1]) <= 1}

\* the locals of interactive_mode at the start of a round
Round(n, translates, displayed) ==
    [round |-> n, translates |-> translates, displayed |-> displayed,
     line |-> <<>>, answer |-> <<>>,
     text |-> <<>>, targets |-> <<>>,
     asked_text |-> FALSE, asked_languages |-> FALSE, translated |-> 0,
     asked_continue |-> FALSE]

InitMain ==
    /\ pc = "parsed"
    /\ argv \in {<<a>> : a \in MainArgvs}
    /\ payload = <<>> /\ resp = <<>> /\ raw = <<>> /\ result = <<>>
    /\ error = <<>>
    /\ service = <<>> /\ client = <<>> /\ built = <<>> /\ asked = <<>>
    /\ call = <<>> /\ request = <<>> /\ calls = 0 /\ outcome = <<>>
    /\ exit = <<>> /\ stderr = <<>> /\ mode = ""
    /\ frame = <<>> /\ returned = <<>> /\ escaped = <<>>
    /\ arg = <<>> /\ outs = <<>>

\* interactive_mode builds the service once and starts its loop
StartInteractive ==
    /\ pc = "interactive"
    /\ built' = <<[openai_client |-> OpenAIClient,
                   model |-> <<argv[1].model>>, temperature |-> None]>>
    /\ client' = <<ServiceClient(OpenAIClient, <<argv[1].model>>)>>
    /\ service' = <<TranslationService(OpenAIClient, <<argv[1].model>>)>>
    /\ frame' = <<Round(1, 0, 0)>>
    /\ pc' = "text_prompt"
    /\ UNCHANGED <<payload, resp, raw, result, error, asked, call, request,
                   calls, outcome, argv, exit, stderr, mode, returned, escaped,
                   arg, outs>>

\* return 130 from the KeyboardInterrupt handler of the loop
Interrupted(ev) ==
    /\ returned' = <<130>>
    /\ frame' = <<[frame[1] EXCEPT !.line = <<ev>>]>>
    /\ pc' = "returned"
    /\ UNCHANGED <<payload, resp, raw, result, error, app, argv, exit, stderr,
                   mode, escaped, arg, outs>>

\* any other exception of the loop body: reported, then the continue prompt
\* is asked inside the handler
Reported(ev, msg) ==
    /\ stderr' = Append(stderr, msg)
    /\ frame' = <<[frame[1] EXCEPT !.line = <<ev>>]>>
    /\ pc' = "error_prompt"
    /\ UNCHANGED <<payload, resp, raw, result, error, app, argv, exit, mode,
                   returned, escaped, arg, outs>>

\* text = prompt_for_text(): one input() of its loop
PromptText ==
    /\ pc = "text_prompt"
    /\ \E ev \in Events(TextLines) :
          IF ev.kind = "interrupt" THEN Interrupted(ev)
          ELSE IF ev.kind = "eof" THEN Reported(ev, MsgEOF)
          ELSE LET r == prompt_for_text(ev.chars)
                   f == [frame[1] EXCEPT !.line = <<ev>>, !.asked_text = TRUE]
               IN /\ frame' = <<IF r.again THEN f
                                ELSE [f EXCEPT !.text = r.value]>>
                  /\ returned' = IF ~r.again /\ r.value[1] = <<>> THEN <<0>>
                                 ELSE returned
                  /\ pc' = IF r.again THEN "text_prompt"
                           ELSE IF r.value[1] = <<>> THEN "returned"
                           ELSE "lang_prompt"
                  /\ UNCHANGED <<payload, resp, raw, result, error, app, argv,
                                 exit, stderr, mode, escaped, arg, outs>>

\* service.translate called twice in a round
PromptLanguages_TranslatesTwice ==
    /\ pc = "lang_prompt"
    /\ \E ev \in Events(LanguageLines) :
          IF ev.kind = "interrupt" THEN Interrupted(ev)
          ELSE IF ev.kind = "eof" THEN Reported(ev, MsgEOF)
          ELSE LET r == prompt_for_languages(ev.chars)
                   f == [frame[1] EXCEPT !.line = <<ev>>,
                                         !.asked_languages = TRUE]
               IN /\ frame' =
                       <<IF r.again THEN f
                         ELSE [f EXCEPT
                                 !.targets = <<ensure_english_included(r.value[1])>>,
                                 !.translated = @ + 2,
                                 !.translates = @ + 2]>>
                  /\ asked' = IF r.again THEN asked
                              ELSE <<[text |-> frame[1].text[1],
                                      targets |-> ensure_english_included(r.value[1])]>>
                  /\ call' = IF r.again THEN call
                             ELSE <<Forward(frame[1].text[1],
                                            ensure_english_included(r.value[1]))>>
                  /\ pc' = IF r.again THEN "lang_prompt" ELSE "request"
                  /\ UNCHANGED <<payload, resp, raw, result, error, service,
                                 client, built, request, calls, outcome, argv,
                                 exit, stderr, mode, returned, escaped, arg,
                                 outs>>

\* targets = prompt_for_languages(): one input() of its loop; on a return,
\* targets = ensure_english_included(targets) and service.translate is called
PromptLanguages ==
    /\ pc = "lang_prompt"
    /\ \E ev \in Events(LanguageLines) :
          IF ev.kind = "interrupt" THEN Interrupted(ev)
          ELSE IF ev.kind = "eof" THEN Reported(ev, MsgEOF)
          ELSE LET r == prompt_for_languages(ev.chars)
                   f == [frame[1] EXCEPT !.line = <<ev>>,
                                         !.asked_languages = TRUE]
               IN /\ frame' =
                       <<IF r.again THEN f
                         ELSE [f EXCEPT
                                 !.targets = <<ensure_english_included(r.value[1])>>,
                                 !.translated = @ + 1,
                                 !.translates = @ + 1]>>
                  /\ asked' = IF r.again THEN asked
                              ELSE <<[text |-> frame[1].text[1],
                                      targets |-> ensure_english_included(r.value[1])]>>
                  /\ call' = IF r.again THEN call
                             ELSE <<Forward(frame[1].text[1],
                                            ensure_english_included(r.value[1]))>>
                  /\ pc' = IF r.again THEN "lang_prompt" ELSE "request"
                  /\ UNCHANGED <<payload, resp, raw, result, error, service,
                                 client, built, request, calls, outcome, argv,
                                 exit, stderr, mode, returned, escaped, arg,
                                 outs>>

\* an error of service.translate ends interactive_mode
AfterTranslate_ErrorEnds ==
    /\ mode = "interactive" /\ outcome # <<>> /\ pc \in {"done", "failed"}
    /\ IF ~outcome[1].raised
       THEN /\ pc' = "continue_prompt"
            /\ frame' = <<[frame[1] EXCEPT !.displayed = @ + 1]>>
            /\ UNCHANGED <<stderr, returned>>
       ELSE /\ pc' = "returned"
            /\ returned' = <<IF outcome[1].type = "KeyboardInterrupt"
                             THEN 130 ELSE 1>>
            /\ UNCHANGED <<stderr, frame>>
    /\ UNCHANGED <<payload, resp, raw, result, error, app, argv, exit, mode,
                   escaped, arg, outs>>

\* service.translate is back in the loop: the result is displayed, or the
\* exception goes to its handler
AfterTranslate ==
    /\ mode = "interactive" /\ outcome # <<>> /\ pc \in {"done", "failed"}
    /\ IF ~outcome[1].raised
       THEN /\ pc' = "continue_prompt"
            /\ frame' = <<[frame[1] EXCEPT !.displayed = @ + 1]>>
            /\ UNCHANGED <<stderr, returned>>
       ELSE IF outcome[1].type = "KeyboardInterrupt"
       THEN /\ pc' = "returned"
            /\ returned' = <<130>>
            /\ UNCHANGED <<stderr, frame>>
       ELSE /\ pc' = "error_prompt"
            /\ stderr' = stderr \o <<"Error: ", outcome[1].prefix,
                                      outcome[1].msg>>
            /\ UNCHANGED <<returned, frame>>
    /\ UNCHANGED <<payload, resp, raw, result, error, app, argv, exit, mode,
                   escaped, arg, outs>>

\* the next round: fresh locals, nothing left of the last call
NextRound(ev) ==
    /\ frame' = <<[Round(frame[1].round + 1, frame[1].translates,
                           frame[1].displayed)
                     EXCEPT !.answer = <<ev>>]>>
    /\ pc' = "text_prompt"
    /\ payload' = <<>> /\ resp' = <<>> /\ raw' = <<>> /\ result' = <<>>
    /\ error' = <<>>
    /\ asked' = <<>> /\ call' = <<>> /\ request' = <<>> /\ outcome' = <<>>
    /\ UNCHANGED <<service, client, built, calls, argv, exit, stderr, mode,
                   returned, escaped, arg, outs>>

\* the loop is left: return 0
Leaves(ev) ==
    /\ frame' = <<[frame[1] EXCEPT !.answer = <<ev>>, !.asked_continue = TRUE]>>
    /\ returned' = <<0>>
    /\ pc' = "returned"
    /\ UNCHANGED <<payload, resp, raw, result, error, app, argv, exit, stderr,
                   mode, escaped, arg, outs>>

\* the continue prompt asks again
AsksAgain(ev) ==
    /\ frame' = <<[frame[1] EXCEPT !.answer = <<ev>>, !.asked_continue = TRUE]>>
    /\ UNCHANGED <<pipe, app, argv, exit, stderr, mode, returned, escaped, arg,
                   outs>>

\* prompt_continue() after a displayed result, inside the try block
PromptContinue ==
    /\ pc = "continue_prompt"
    /\ \E ev \in Events(ContinueLines) :
          IF ev.kind = "interrupt"
          THEN /\ returned' = <<130>>
               /\ frame' = <<[frame[1] EXCEPT !.answer = <<ev>>,
                                              !.asked_continue = TRUE]>>
               /\ pc' = "returned"
               /\ UNCHANGED <<payload, resp, raw, result, error, app, argv,
                              exit, stderr, mode, escaped, arg, outs>>
          ELSE IF ev.kind = "eof"
          THEN /\ stderr' = Append(stderr, MsgEOF)
               /\ frame' = <<[frame[1] EXCEPT !.answer = <<ev>>,
                                              !.asked_continue = TRUE]>>
               /\ pc' = "error_prompt"
               /\ UNCHANGED <<payload, resp, raw, result, error, app, argv,
                              exit, mode, returned, escaped, arg, outs>>
          ELSE LET r == prompt_continue(ev.chars)
               IN IF r.again THEN AsksAgain(ev)
                  ELSE IF r.value[1]
                       THEN frame[1].round < MaxRounds /\ NextRound(ev)
                  ELSE Leaves(ev)

\* an exception raised inside an except clause leaves interactive_mode
Escapes(ev, type) ==
    /\ frame' = <<[frame[1] EXCEPT !.answer = <<ev>>, !.asked_continue = TRUE]>>
    /\ escaped' = <<type>>
    /\ pc' = "escaped"
    /\ UNCHANGED <<payload, resp, raw, result, error, app, argv, exit, stderr,
                   mode, returned, arg, outs>>

\* prompt_continue() inside the handler of ValueError or of Exception
PromptContinueAfterError ==
    /\ pc = "error_prompt"
    /\ \E ev \in Events(ContinueLines) :
          IF ev.kind = "interrupt" THEN Escapes(ev, "KeyboardInterrupt")
          ELSE IF ev.kind = "eof" THEN Escapes(ev, "EOFError")
          ELSE LET r == prompt_continue(ev.chars)
               IN IF r.again THEN AsksAgain(ev)
                  ELSE IF r.value[1]
                       THEN frame[1].round < MaxRounds /\ NextRound(ev)
                  ELSE Leaves(ev)

\* main returns what interactive_mode returned, or handles what it let out
MainReturn ==
    /\ pc \in {"returned", "escaped"}
    /\ IF pc = "returned"
       THEN exit' = returned /\ stderr' = stderr
       ELSE IF escaped[1] = "KeyboardInterrupt"
       THEN exit' = <<130>> /\ stderr' = Append(stderr, MsgCancelled)
       ELSE exit' = <<1>> /\ stderr' = stderr \o <<"Error: ", MsgEOF>>
    /\ pc' = "exited"
    /\ UNCHANGED <<payload, resp, raw, result, error, app, argv, mode, frame,
                   returned, escaped, arg, outs>>

NextMain ==
    \/ Reject \/ EnterInteractive \/ Direct \/ Finish
    \/ StartInteractive \/ PromptText \/ PromptLanguages
    \/ CreateReturns \/ CreateRaises \/ ExtractText \/ Parse \/ ServiceReturn
    \/ AfterTranslate \/ PromptContinue \/ PromptContinueAfterError
    \/ MainReturn

SpecMain == InitMain /\ [][NextMain]_vars

(***************************************************************************)
(* Claims about translate_main.main and interactive_mode                   *)
(***************************************************************************)
Exited == argv # <<>> /\ exit # <<>>
InInteractive == mode = "interactive" /\ frame # <<>>
\* the user pressed Ctrl-C at a prompt, or while translate was running
CtrlCTyped ==
    \/ InInteractive /\ frame[1].line # <<>>
          /\ frame[1].line[1].kind = "interrupt"
    \/ InInteractive /\ frame[1].answer # <<>>
          /\ frame[1].answer[1].kind = "interrupt"
    \/ outcome # <<>> /\ outcome[1].type = "KeyboardInterrupt"
Translated == outcome # <<>> /\ ~outcome[1].raised
SomeDisplayed ==
    \/ mode = "direct" /\ Translated
    \/ InInteractive /\ frame[1].displayed > 0

InputEnded == \E i \in DOMAIN stderr : stderr[i] = "EOF when reading a line"

\* C23: a KeyboardInterrupt at the text prompt, at the language prompt, during
\* the translate call, or at the continue prompt after a result or after a
\* translation error, makes interactive_mode return 130 and never leaves it
\* as an exception.
C23_InterruptReturns130 ==
    (InInteractive /\ CtrlCTyped /\ ~InputEnded
        /\ pc \in {"returned", "escaped", "exited"}) =>
        (returned = <<130>> /\ escaped = <<>>)

InCall == pc \in {"request", "called", "extracted", "done", "failed"}
GaveText == frame[1].text # <<>> /\ Len(frame[1].text[1]) > 0
GaveLanguages == frame[1].targets # <<>>

\* C26: in a round of interactive_mode service.translate is called once when
\* the user gave a text that is not a quit word and an accepted language list,
\* and not at all otherwise; the call comes after both prompts were answered
\* and before the continue prompt of the round, with the text of the round
\* and a target list that starts with 'en'; once interactive_mode has
\* returned, after a quit word or a no, no call follows and the value
\* returned for them is 0.
C26_OneCallPerRound ==
    /\ [](InInteractive =>
            /\ frame[1].translated = (IF GaveText /\ GaveLanguages THEN 1 ELSE 0)
            /\ frame[1].translates <= frame[1].round
            /\ calls <= frame[1].translates
            /\ frame[1].translated = 1 =>
                  /\ frame[1].asked_text /\ frame[1].asked_languages
                  /\ call # <<>>
                  /\ call[1].text = frame[1].text[1]
                  /\ call[1].targets = frame[1].targets[1]
                  /\ call[1].targets[1] = <<"e", "n">>
            /\ InCall => (frame[1].translated = 1 /\ ~frame[1].asked_continue)
            /\ pc = "continue_prompt" => frame[1].translated = 1
            /\ (pc = "returned" /\ frame[1].line # <<>>
                   /\ frame[1].line[1].kind = "line"
                   /\ lower(strip(frame[1].line[1].chars))
                         \in {<<"q">>, <<"q", "u", "i", "t">>,
                              <<"e", "x", "i", "t">>}) =>
                  (returned = <<0>> /\ frame[1].translated = 0)
            /\ (pc = "returned" /\ frame[1].answer # <<>>
                   /\ frame[1].answer[1].kind = "line"
                   /\ lower(strip(frame[1].answer[1].chars))
                         \in {<<"n">>, <<"n", "o">>}) =>
                  returned = <<0>>)
    /\ [][(InInteractive /\ pc \in {"returned", "escaped", "exited"}) =>
             (call' = call /\ calls' = calls
                 /\ frame'[1].translates = frame[1].translates)]_vars

C26_Witness ==
    /\ InInteractive /\ pc = "continue_prompt"
    /\ frame[1].round = 2 /\ frame[1].translates = 2 /\ calls = 2
    /\ call[1].targets = <<(<<"e", "n">>), (<<"f", "r">>)>>

ServiceFailed ==
    InInteractive /\ outcome # <<>> /\ outcome[1].raised
        /\ outcome[1].type = "ValueError"
Answer(words) ==
    /\ frame[1].answer # <<>> /\ frame[1].answer[1].kind = "line"
    /\ lower(strip(frame[1].answer[1].chars)) \in words

\* C27: an exception of service.translate in a round does not end
\* interactive_mode: the error is written to stderr and the continue prompt is
\* asked; interactive_mode then returns only on a no, with 0 (or is left by
\* an interrupt or the end of the input at that prompt), and a yes starts the
\* next round at the text prompt.
C27_ErrorKeepsLoop ==
    /\ [](ServiceFailed =>
            /\ pc \in {"failed", "error_prompt", "returned", "escaped", "exited"}
            /\ pc # "failed" =>
                  \E i \in DOMAIN stderr :
                      /\ stderr[i] = "Translation API error: "
                      /\ stderr[i + 1] = outcome[1].msg
            /\ (pc \in {"returned", "exited"} /\ escaped = <<>>) =>
                  (returned = <<0>> /\ Answer({<<"n">>, <<"n", "o">>}))
            /\ escaped # <<>> => frame[1].answer[1].kind # "line")
    /\ [][(ServiceFailed /\ pc = "error_prompt" /\ pc' # "error_prompt") =>
             \/ pc' = "returned" /\ returned' = <<0>>
             \/ pc' = "escaped"
             \/ /\ pc' = "text_prompt"
                /\ frame'[1].round = frame[1].round + 1
                /\ frame'[1].answer[1].kind = "line"
                /\ lower(strip(frame'[1].answer[1].chars))
                      \in {<<"y">>, <<"y", "e", "s">>}]_vars

C27_Witness ==
    /\ InInteractive /\ pc = "text_prompt" /\ frame[1].round = 2
    /\ frame[1].translates = 1 /\ frame[1].displayed = 0
    /\ \E i \in DOMAIN stderr : stderr[i] = "Translation API error: "

\* C28: parse checks, in this order, that the text decodes, that the value is
\* an object, that both required keys are there, and that their values have
\* the right types, and fails with the message of the first check that does
\* not pass; what it returns or raises is determined by the text alone.
C28_CheckOrder ==
    ParsedPayloadText =>
        IF payload[1].how \in {"truncated", "trailing", "comma", "prose"}
        THEN FailedWith("Expected JSON translation payload")
        ELSE IF payload[1].how = "pyconst" THEN pc = "failed" \/ pc = "done"
        ELSE IF Denoted(payload[1]).t # "obj"
        THEN FailedWith("Expected JSON object at top level")
        ELSE IF ~Has("detected_language") \/ ~Has("translations")
        THEN FailedWith("Missing required fields: detected_language, translations")
        ELSE IF Field("detected_language").t # "str"
                \/ Field("translations").t # "obj"
        THEN FailedWith("Invalid types for detected_language or translations")
        ELSE /\ pc = "done" /\ error = <<>>
             /\ result[1].detected_language = Field("detected_language")
             /\ result[1].translations = Field("translations")

C28_Witness ==
    /\ ParsedPayloadText /\ payload[1].how = "dumps" /\ IsPayload
    /\ Has("detected_language") /\ Field("detected_language").t # "str"
    /\ ~Has("translations")
    /\ FailedWith("Missing required fields: detected_language, translations")
====
